---- MODULE Spec2Model ----
(***************************************************************************)
(* RC5 / RC6 wide-block cipher engine (rc6.c) and the vector-printing      *)
(* caller (main.c).                                                        *)
(*                                                                         *)
(* A WORD is modelled with its full width: a tuple of WORD_BYTES bytes,    *)
(* index 1 the least significant, and every operation of the C code on a   *)
(* WORD (+, -, *, ^, |, <<, >>, % WORD_SZ) is computed on that tuple       *)
(* modulo 2^WORD_SZ.  Byte buffers (key, plaintext, ciphertext, the key    *)
(* array L seen through char pointers) are tuples of bytes in address      *)
(* order; a WORD access to them goes through the host's byte order.        *)
(***************************************************************************)
EXTENDS Integers, Sequences, FiniteSets

(***************************************************************************)
(* Compile-time configuration of rc6.c (the WORD_SZ==64 branch).           *)
(***************************************************************************)
WORD_SZ == 64

LGW == 6

\* sizeof(WORD)
WORD_BYTES == WORD_SZ \div 8

\* P = 0xb7e151628aed2a6b, least significant byte first
P == <<107, 42, 237, 138, 98, 81, 225, 183>>

\* Q = 0x9e3779b97f4a7c15, least significant byte first
Q == <<21, 124, 74, 127, 185, 121, 55, 158>>

\* n copies of v, as a tuple
RECURSIVE Repeat(_, _)
Repeat(v, n) ==
    IF n <= 0 THEN <<>>
    ELSE IF n = 1 THEN <<v>>
    ELSE Repeat(v, n \div 2) \o Repeat(v, n - n \div 2)

\* The WORD whose value is the small non-negative integer n (n < 256).
WordOf(n) == <<n>> \o Repeat(0, WORD_BYTES - 1)

ZeroW == WordOf(0)

(***************************************************************************)
(* WORD arithmetic, modulo 2^WORD_SZ, from the least significant byte on.  *)
(***************************************************************************)
\* x + y + c for a carry c, modulo 256^Len(x)
RECURSIVE AddFrom(_, _, _)
AddFrom(x, y, c) ==
    IF x = <<>> \/ y = <<>> THEN <<>>
    ELSE LET s == Head(x) + Head(y) + c
         IN  <<s % 256>> \o AddFrom(Tail(x), Tail(y), s \div 256)

\* x + y
AddW(x, y) == AddFrom(x, y, 0)

\* x - y - c for a borrow c, modulo 256^Len(x)
RECURSIVE SubFrom(_, _, _)
SubFrom(x, y, c) ==
    IF x = <<>> \/ y = <<>> THEN <<>>
    ELSE LET s == Head(x) - Head(y) - c
         IN  <<s % 256>> \o SubFrom(Tail(x), Tail(y), IF s < 0 THEN 1 ELSE 0)

\* x - y
SubW(x, y) == SubFrom(x, y, 0)

\* n * x + c for an int 0 <= n < 256, modulo 256^Len(x)
RECURSIVE ScaleFrom(_, _, _)
ScaleFrom(n, x, c) ==
    IF x = <<>> THEN <<>>
    ELSE LET s == n * Head(x) + c
         IN  <<s % 256>> \o ScaleFrom(n, Tail(x), s \div 256)

\* n * x for an int constant n
ScaleW(n, x) == ScaleFrom(n, x, 0)

\* sum of the byte products x[i] * y[k+1-i], i in lo..hi, that land in byte k
RECURSIVE Column(_, _, _, _, _)
Column(x, y, k, lo, hi) ==
    IF lo > hi THEN 0
    ELSE IF lo = hi THEN x[lo] * y[k + 1 - lo]
    ELSE Column(x, y, k, lo, (lo + hi) \div 2)
         + Column(x, y, k, (lo + hi) \div 2 + 1, hi)

\* the column sums of bytes lo..hi of x * y
RECURSIVE Columns(_, _, _, _)
Columns(x, y, lo, hi) ==
    IF lo > hi THEN <<>>
    ELSE IF lo = hi THEN <<Column(x, y, lo, 1, lo)>>
    ELSE Columns(x, y, lo, (lo + hi) \div 2)
         \o Columns(x, y, (lo + hi) \div 2 + 1, hi)

\* the bytes of the number whose column sums are cols, c carried in
RECURSIVE Carry(_, _)
Carry(cols, c) ==
    IF cols = <<>> THEN <<>>
    ELSE LET s == Head(cols) + c
         IN  <<s % 256>> \o Carry(Tail(cols), s \div 256)

\* x * y
MulW(x, y) == Carry(Columns(x, y, 1, WORD_BYTES), 0)

\* a ^ b and a | b for 4-bit a and b: row a+1, column b+1
XorNibble ==
    <<<<0, 1, 2, 3, 4, 5, 6, 7, 8, 9, 10, 11, 12, 13, 14, 15>>,
      <<1, 0, 3, 2, 5, 4, 7, 6, 9, 8, 11, 10, 13, 12, 15, 14>>,
      <<2, 3, 0, 1, 6, 7, 4, 5, 10, 11, 8, 9, 14, 15, 12, 13>>,
      <<3, 2, 1, 0, 7, 6, 5, 4, 11, 10, 9, 8, 15, 14, 13, 12>>,
      <<4, 5, 6, 7, 0, 1, 2, 3, 12, 13, 14, 15, 8, 9, 10, 11>>,
      <<5, 4, 7, 6, 1, 0, 3, 2, 13, 12, 15, 14, 9, 8, 11, 10>>,
      <<6, 7, 4, 5, 2, 3, 0, 1, 14, 15, 12, 13, 10, 11, 8, 9>>,
      <<7, 6, 5, 4, 3, 2, 1, 0, 15, 14, 13, 12, 11, 10, 9, 8>>,
      <<8, 9, 10, 11, 12, 13, 14, 15, 0, 1, 2, 3, 4, 5, 6, 7>>,
      <<9, 8, 11, 10, 13, 12, 15, 14, 1, 0, 3, 2, 5, 4, 7, 6>>,
      <<10, 11, 8, 9, 14, 15, 12, 13, 2, 3, 0, 1, 6, 7, 4, 5>>,
      <<11, 10, 9, 8, 15, 14, 13, 12, 3, 2, 1, 0, 7, 6, 5, 4>>,
      <<12, 13, 14, 15, 8, 9, 10, 11, 4, 5, 6, 7, 0, 1, 2, 3>>,
      <<13, 12, 15, 14, 9, 8, 11, 10, 5, 4, 7, 6, 1, 0, 3, 2>>,
      <<14, 15, 12, 13, 10, 11, 8, 9, 6, 7, 4, 5, 2, 3, 0, 1>>,
      <<15, 14, 13, 12, 11, 10, 9, 8, 7, 6, 5, 4, 3, 2, 1, 0>>>>

OrNibble ==
    <<<<0, 1, 2, 3, 4, 5, 6, 7, 8, 9, 10, 11, 12, 13, 14, 15>>,
      <<1, 1, 3, 3, 5, 5, 7, 7, 9, 9, 11, 11, 13, 13, 15, 15>>,
      <<2, 3, 2, 3, 6, 7, 6, 7, 10, 11, 10, 11, 14, 15, 14, 15>>,
      <<3, 3, 3, 3, 7, 7, 7, 7, 11, 11, 11, 11, 15, 15, 15, 15>>,
      <<4, 5, 6, 7, 4, 5, 6, 7, 12, 13, 14, 15, 12, 13, 14, 15>>,
      <<5, 5, 7, 7, 5, 5, 7, 7, 13, 13, 15, 15, 13, 13, 15, 15>>,
      <<6, 7, 6, 7, 6, 7, 6, 7, 14, 15, 14, 15, 14, 15, 14, 15>>,
      <<7, 7, 7, 7, 7, 7, 7, 7, 15, 15, 15, 15, 15, 15, 15, 15>>,
      <<8, 9, 10, 11, 12, 13, 14, 15, 8, 9, 10, 11, 12, 13, 14, 15>>,
      <<9, 9, 11, 11, 13, 13, 15, 15, 9, 9, 11, 11, 13, 13, 15, 15>>,
      <<10, 11, 10, 11, 14, 15, 14, 15, 10, 11, 10, 11, 14, 15, 14, 15>>,
      <<11, 11, 11, 11, 15, 15, 15, 15, 11, 11, 11, 11, 15, 15, 15, 15>>,
      <<12, 13, 14, 15, 12, 13, 14, 15, 12, 13, 14, 15, 12, 13, 14, 15>>,
      <<13, 13, 15, 15, 13, 13, 15, 15, 13, 13, 15, 15, 13, 13, 15, 15>>,
      <<14, 15, 14, 15, 14, 15, 14, 15, 14, 15, 14, 15, 14, 15, 14, 15>>,
      <<15, 15, 15, 15, 15, 15, 15, 15, 15, 15, 15, 15, 15, 15, 15, 15>>>>

\* a ^ b and a | b for bytes a and b, nibble by nibble
XorByte(a, b) ==
    XorNibble[(a % 16) + 1][(b % 16) + 1]
    + 16 * XorNibble[(a \div 16) + 1][(b \div 16) + 1]

OrByte(a, b) ==
    OrNibble[(a % 16) + 1][(b % 16) + 1]
    + 16 * OrNibble[(a \div 16) + 1][(b \div 16) + 1]

RECURSIVE XorFrom(_, _)
XorFrom(x, y) ==
    IF x = <<>> \/ y = <<>> THEN <<>>
    ELSE <<XorByte(Head(x), Head(y))>> \o XorFrom(Tail(x), Tail(y))

\* x ^ y
XorW(x, y) == XorFrom(x, y)

RECURSIVE OrFrom(_, _)
OrFrom(x, y) ==
    IF x = <<>> \/ y = <<>> THEN <<>>
    ELSE <<OrByte(Head(x), Head(y))>> \o OrFrom(Tail(x), Tail(y))

\* x | y
OrW(x, y) == OrFrom(x, y)

(***************************************************************************)
(* x << d and x >> d for an int d >= 0.  A shift by d >= WORD_SZ is        *)
(* undefined in C; rotl and rotr make one (d = WORD_SZ) when the rotation  *)
(* amount is 0.  wide is what the build makes of it: "mask" (the count is  *)
(* taken modulo WORD_SZ, as the x86 and AArch64 shifts do) or "zero" (all  *)
(* bits are shifted out).                                                  *)
(***************************************************************************)
WideShift == {"mask", "zero"}

\* x << s for 0 <= s < 8, c the bits shifted in from below
RECURSIVE ShlBits(_, _, _)
ShlBits(x, s, c) ==
    IF x = <<>> THEN <<>>
    ELSE <<((Head(x) * 2^s) % 256) + c>>
         \o ShlBits(Tail(x), s, Head(x) \div 2^(8 - s))

\* x >> s for 0 <= s < 8
RECURSIVE ShrBits(_, _)
ShrBits(x, s) ==
    IF x = <<>> THEN <<>>
    ELSE <<(Head(x) \div 2^s)
           + (((IF Len(x) > 1 THEN x[2] ELSE 0) * 2^(8 - s)) % 256)>>
         \o ShrBits(Tail(x), s)

\* x << d and x >> d for 0 <= d < WORD_SZ: whole bytes, then bits
ShlBytes(x, d) ==
    ShlBits(Repeat(0, d \div 8) \o SubSeq(x, 1, WORD_BYTES - d \div 8), d % 8, 0)

ShrBytes(x, d) ==
    ShrBits(SubSeq(x, d \div 8 + 1, WORD_BYTES) \o Repeat(0, d \div 8), d % 8)

Shl(x, d, wide) ==
    IF d >= WORD_SZ
    THEN IF wide = "mask" THEN ShlBytes(x, d % WORD_SZ) ELSE ZeroW
    ELSE ShlBytes(x, d)

Shr(x, d, wide) ==
    IF d >= WORD_SZ
    THEN IF wide = "mask" THEN ShrBytes(x, d % WORD_SZ) ELSE ZeroW
    ELSE ShrBytes(x, d)

\* x % WORD_SZ, as an int (WORD_SZ divides 256)
ModWordSz(x) == x[1] % WORD_SZ

max(a, b) == IF a > b THEN a ELSE b

rotl(x, d, wide) == OrW(Shl(x, d, wide), Shr(x, WORD_SZ - d, wide))

\* a right rotation that yields 0 when the amount is 0
rotrZeroAtZero(x, d, wide) ==
    IF d = 0 THEN ZeroW ELSE OrW(Shr(x, d, wide), Shl(x, WORD_SZ - d, wide))

rotr(x, d, wide) == OrW(Shr(x, d, wide), Shl(x, WORD_SZ - d, wide))

\* the bytes of x in the opposite order
RECURSIVE Reverse(_)
Reverse(x) == IF x = <<>> THEN <<>> ELSE Reverse(Tail(x)) \o <<Head(x)>>

\* __builtin_bswap64
bswap(x) == Reverse(x)

\* a conversion that never swaps
bswap_never(x, little) == x

\* little: the host stores the least significant byte first
bswap_if_be(x, little) == IF little THEN x ELSE bswap(x)

(***************************************************************************)
(* Memory.  A byte buffer is a tuple of bytes in address order; WORD k of  *)
(* it (p[k] through a WORD pointer) is its bytes WORD_BYTES*k+1 ..         *)
(* WORD_BYTES*k+WORD_BYTES, read in the host's byte order.  A WORD array   *)
(* that is only accessed as WORDs (the expanded key table S, and L after   *)
(* its conversion) is a tuple of WORD values: S[i] of the C code is        *)
(* element i+1 of the tuple.                                               *)
(***************************************************************************)
LoadWord(bytes, k, little) ==
    LET m == SubSeq(bytes, WORD_BYTES * k + 1, WORD_BYTES * k + WORD_BYTES)
    IN  IF little THEN m ELSE Reverse(m)

StoreWord(bytes, k, v, little) ==
    SubSeq(bytes, 1, WORD_BYTES * k)
    \o (IF little THEN v ELSE Reverse(v))
    \o SubSeq(bytes, WORD_BYTES * k + WORD_BYTES + 1, Len(bytes))

\* S[i] read through the WORD pointer; outside the table the read finds
\* whatever lies there, which the model fixes to 0 and reports in the trace.
ReadS(S, i) == IF i >= 0 /\ i < Len(S) THEN S[i + 1] ELSE ZeroW

\* S[i] = v
WriteS(S, i, v) == [S EXCEPT ![i + 1] = v]

\* Capacity of the local array L, in bytes: WORD L[256/sizeof(WORD)]
L_BYTES == (256 \div WORD_BYTES) * WORD_BYTES

(***************************************************************************)
(* setup: the key schedule.                                                *)
(***************************************************************************)
\* the parameter test without its word-width term
UnsupportedIgnoringWidth(w, r, b) ==
    (b < 0) \/ (b > 255) \/ (r < 0) \/ (r > 255) \/ (r % 4 # 0)

\* the parameter test of setup
Unsupported(w, r, b) ==
    (WORD_SZ # w) \/ (b < 0) \/ (b > 255) \/ (r < 0) \/ (r > 255) \/ (r % 4 # 0)

\* L_words = max(1, (b+sizeof(WORD)-1)/sizeof(WORD))
LWords(b) == max(1, (b + WORD_BYTES - 1) \div WORD_BYTES)

\* for (i=0; i<L_words; i++) L[i] = bswap_if_be(L[i]): the values of the
\* words i .. L_words-1, computed as two halves
RECURSIVE WordsFrom(_, _, _, _)
WordsFrom(bytes, i, L_words, little) ==
    IF i >= L_words THEN <<>>
    ELSE IF i + 1 = L_words
    THEN <<bswap_if_be(LoadWord(bytes, i, little), little)>>
    ELSE WordsFrom(bytes, i, (i + L_words) \div 2, little)
         \o WordsFrom(bytes, (i + L_words) \div 2, L_words, little)

\* the conversion without the store L[L_words-1] = 0
KeyWordsNoPad(b, key, L0, little) ==
    LET L_words == LWords(b)
        Lk == SubSeq(key, 1, b) \o SubSeq(L0, b + 1, Len(L0))
    IN  WordsFrom(Lk, 0, L_words, little)

\* "Convert key bytes to key words": L0 is what the uninitialised array L
\* holds on entry (L_BYTES bytes); the result is L[0..L_words-1] as values.
KeyWords(b, key, L0, little) ==
    LET L_words == LWords(b)
        Lz == StoreWord(L0, L_words - 1, ZeroW, little)
        Lk == SubSeq(key, 1, b) \o SubSeq(Lz, b + 1, Len(Lz))
    IN  WordsFrom(Lk, 0, L_words, little)

\* "Fill S with constants": for (i=1; i<S_words; i++) S[i] = S[i-1] + Q.
\* m holds S and i; the iterations m.i .. S_words-1 are run as two halves.
RECURSIVE FillS(_, _)
FillS(m, S_words) ==
    IF m.i >= S_words THEN m
    ELSE IF m.i + 1 = S_words
    THEN [S |-> WriteS(m.S, m.i, AddW(ReadS(m.S, m.i - 1), Q)), i |-> m.i + 1]
    ELSE FillS(FillS(m, (m.i + S_words) \div 2), S_words)

\* an iteration whose B is computed from the A of the iteration before
MixStepStaleA(m, S_words, L_words, wide) ==
    LET i == IF m.i = S_words THEN 0 ELSE m.i
        j == IF m.j = L_words THEN 0 ELSE m.j
        A == rotl(AddW(AddW(ReadS(m.S, i), m.A), m.B), 3, wide)
        d == ModWordSz(AddW(m.A, m.B))
        B == rotl(AddW(AddW(ReadS(m.L, j), m.A), m.B), d, wide)
    IN  [S |-> WriteS(m.S, i, A), L |-> WriteS(m.L, j, B),
         A |-> A, B |-> B, i |-> i + 1, j |-> j + 1, k |-> m.k + 1,
         idx |-> Append(m.idx, <<i, j>>), rot0 |-> m.rot0 \/ d = 0]

\* One iteration of "Mix key into S".  m holds the loop's variables and the
\* accesses made so far: idx, a tuple of the <<i, j>> used by each iteration,
\* and rot0, whether some rotation amount (A+B) % WORD_SZ was 0.
MixStep(m, S_words, L_words, wide) ==
    LET i == IF m.i = S_words THEN 0 ELSE m.i
        j == IF m.j = L_words THEN 0 ELSE m.j
        A == rotl(AddW(AddW(ReadS(m.S, i), m.A), m.B), 3, wide)
        d == ModWordSz(AddW(A, m.B))
        B == rotl(AddW(AddW(ReadS(m.L, j), A), m.B), d, wide)
    IN  [S |-> WriteS(m.S, i, A), L |-> WriteS(m.L, j, B),
         A |-> A, B |-> B, i |-> i + 1, j |-> j + 1, k |-> m.k + 1,
         idx |-> Append(m.idx, <<i, j>>), rot0 |-> m.rot0 \/ d = 0]

\* The iterations m.k .. n-1 of the loop, run as two halves.
RECURSIVE MixLoop(_, _, _, _, _)
MixLoop(m, n, S_words, L_words, wide) ==
    IF m.k >= n THEN m
    ELSE IF m.k + 1 = n THEN MixStep(m, S_words, L_words, wide)
    ELSE MixLoop(MixLoop(m, (m.k + n) \div 2, S_words, L_words, wide),
                 n, S_words, L_words, wide)

\* setup(S, S_words, w, r, b, key): ret is the return value, S the table
\* after the call, L the key words before mixing, idx and rot0 as in MixStep.
setup(S0, S_words, w, r, b, key, L0, little, wide) ==
    IF Unsupported(w, r, b)
    THEN [ret |-> -1, S |-> S0, L |-> <<>>, idx |-> <<>>, rot0 |-> FALSE]
    ELSE LET L_words == LWords(b)
             L == KeyWords(b, key, L0, little)
             S1 == FillS([S |-> WriteS(S0, 0, P), i |-> 1], S_words).S
             m == MixLoop([S |-> S1, L |-> L, A |-> ZeroW, B |-> ZeroW,
                           i |-> 0, j |-> 0, k |-> 0, idx |-> <<>>,
                           rot0 |-> FALSE], 3 * max(L_words, S_words),
                          S_words, L_words, wide)
         IN  [ret |-> 0, S |-> m.S, L |-> L, idx |-> m.idx, rot0 |-> m.rot0]

rc5_setup(rkey, w, r, b, key, L0, little, wide) ==
    setup(rkey, 2 * r + 2, w, r, b, key, L0, little, wide)

rc6_setup(rkey, w, r, b, key, L0, little, wide) ==
    setup(rkey, 2 * r + 4, w, r, b, key, L0, little, wide)

(***************************************************************************)
(* The block operations.  mem maps a buffer (an allocation) to its bytes;  *)
(* pt and ct name buffers and may name the same one.  Each operation       *)
(* yields the memory after the call (mem, and the table S, through which   *)
(* no statement stores) and what it did on the way:                        *)
(*   reads : the table indices read through S, in order;                   *)
(*   acc   : the block-word accesses, <<"rd", k>> or <<"wr", k>>, in order; *)
(*   rot0  : whether some data-dependent rotation amount was 0.            *)
(***************************************************************************)
\* Each operation keeps its C variables in a record st: the registers, the
\* position sp of the pointer S in the table, the loop counters i and j, and
\* the trace (reads, rot0).  In RC6, t and u hold the two values
\* rotl(x*(2x+1), LGW) of the last round (0 before the first round, where
\* the C variables are unassigned and not read).
Rc5EncRound(st, S, wide) ==
    LET dA == ModWordSz(st.B)
        A == AddW(rotl(XorW(st.A, st.B), dA, wide), ReadS(S, st.sp))
        dB == ModWordSz(A)
        B == AddW(rotl(XorW(st.B, A), dB, wide), ReadS(S, st.sp + 1))
    IN  [A |-> A, B |-> B, sp |-> st.sp + 2, i |-> st.i, j |-> st.j,
         reads |-> st.reads \o <<st.sp, st.sp + 1>>,
         rot0 |-> st.rot0 \/ dA = 0 \/ dB = 0]

\* an inner loop of 3 rounds
RECURSIVE Rc5EncInner3(_, _, _)
Rc5EncInner3(st, S, wide) ==
    IF st.j < 3
    THEN Rc5EncInner3([Rc5EncRound(st, S, wide) EXCEPT !.j = @ + 1], S, wide)
    ELSE st

\* for (j=0; j<4; j++), from the j of st on
RECURSIVE Rc5EncInner(_, _, _)
Rc5EncInner(st, S, wide) ==
    IF st.j < 4
    THEN Rc5EncInner([Rc5EncRound(st, S, wide) EXCEPT !.j = @ + 1], S, wide)
    ELSE st

\* for (i=0; i<r/4; i++), from the i of st on (r >= 0)
RECURSIVE Rc5EncOuter(_, _, _, _)
Rc5EncOuter(st, r, S, wide) ==
    IF st.i < r \div 4
    THEN Rc5EncOuter([Rc5EncInner([st EXCEPT !.j = 0], S, wide) EXCEPT !.i = @ + 1],
                     r, S, wide)
    ELSE st

\* an encryption that clears the output block before it reads the input
rc5_encrypt_clear_first(S, w, r, mem, pt, ct, little, wide) ==
    LET m0 == [mem EXCEPT ![ct] = StoreWord(StoreWord(@, 0, ZeroW, little),
                                            1, ZeroW, little)]
        A0 == AddW(bswap_if_be(LoadWord(m0[pt], 0, little), little), ReadS(S, 0))
        B0 == AddW(bswap_if_be(LoadWord(m0[pt], 1, little), little), ReadS(S, 1))
        st == Rc5EncOuter([A |-> A0, B |-> B0, sp |-> 2, i |-> 0, j |-> 0,
                           reads |-> <<0, 1>>, rot0 |-> FALSE], r, S, wide)
        m1 == [m0 EXCEPT ![ct] = StoreWord(@, 0, bswap_if_be(st.A, little), little)]
        m2 == [m1 EXCEPT ![ct] = StoreWord(@, 1, bswap_if_be(st.B, little), little)]
    IN  [mem |-> m2, S |-> S, reads |-> st.reads, rot0 |-> st.rot0,
         acc |-> << <<"wr", 0>>, <<"wr", 1>>, <<"rd", 0>>, <<"rd", 1>>,
                    <<"wr", 0>>, <<"wr", 1>> >>]

rc5_encrypt(S, w, r, mem, pt, ct, little, wide) ==
    LET A0 == AddW(bswap_if_be(LoadWord(mem[pt], 0, little), little), ReadS(S, 0))
        B0 == AddW(bswap_if_be(LoadWord(mem[pt], 1, little), little), ReadS(S, 1))
        st == Rc5EncOuter([A |-> A0, B |-> B0, sp |-> 2, i |-> 0, j |-> 0,
                           reads |-> <<0, 1>>, rot0 |-> FALSE], r, S, wide)
        m1 == [mem EXCEPT ![ct] = StoreWord(@, 0, bswap_if_be(st.A, little), little)]
        m2 == [m1 EXCEPT ![ct] = StoreWord(@, 1, bswap_if_be(st.B, little), little)]
    IN  [mem |-> m2, S |-> S, reads |-> st.reads, rot0 |-> st.rot0,
         acc |-> << <<"rd", 0>>, <<"rd", 1>>, <<"wr", 0>>, <<"wr", 1>> >>]

\* a decryption round that takes its two subkeys in increasing order
Rc5DecRoundUp(st, S, wide) ==
    LET dB == ModWordSz(st.A)
        B == XorW(rotr(SubW(st.B, ReadS(S, st.sp - 1)), dB, wide), st.A)
        dA == ModWordSz(B)
        A == XorW(rotr(SubW(st.A, ReadS(S, st.sp)), dA, wide), B)
    IN  [A |-> A, B |-> B, sp |-> st.sp - 2, i |-> st.i, j |-> st.j,
         reads |-> st.reads \o <<st.sp - 1, st.sp>>,
         rot0 |-> st.rot0 \/ dA = 0 \/ dB = 0]

Rc5DecRound(st, S, wide) ==
    LET dB == ModWordSz(st.A)
        B == XorW(rotr(SubW(st.B, ReadS(S, st.sp)), dB, wide), st.A)
        dA == ModWordSz(B)
        A == XorW(rotr(SubW(st.A, ReadS(S, st.sp - 1)), dA, wide), B)
    IN  [A |-> A, B |-> B, sp |-> st.sp - 2, i |-> st.i, j |-> st.j,
         reads |-> st.reads \o <<st.sp, st.sp - 1>>,
         rot0 |-> st.rot0 \/ dA = 0 \/ dB = 0]

RECURSIVE Rc5DecInner(_, _, _)
Rc5DecInner(st, S, wide) ==
    IF st.j < 4
    THEN Rc5DecInner([Rc5DecRound(st, S, wide) EXCEPT !.j = @ + 1], S, wide)
    ELSE st

RECURSIVE Rc5DecOuter(_, _, _, _)
Rc5DecOuter(st, r, S, wide) ==
    IF st.i < r \div 4
    THEN Rc5DecOuter([Rc5DecInner([st EXCEPT !.j = 0], S, wide) EXCEPT !.i = @ + 1],
                     r, S, wide)
    ELSE st

rc5_decrypt(S, w, r, mem, ct, pt, little, wide) ==
    LET B0 == bswap_if_be(LoadWord(mem[ct], 1, little), little)
        A0 == bswap_if_be(LoadWord(mem[ct], 0, little), little)
        st == Rc5DecOuter([A |-> A0, B |-> B0, sp |-> 2 * r + 1, i |-> 0, j |-> 0,
                           reads |-> <<>>, rot0 |-> FALSE], r, S, wide)
        m1 == [mem EXCEPT ![pt] =
                  StoreWord(@, 1, bswap_if_be(SubW(st.B, ReadS(S, st.sp)), little),
                            little)]
        m2 == [m1 EXCEPT ![pt] =
                  StoreWord(@, 0, bswap_if_be(SubW(st.A, ReadS(S, st.sp - 1)), little),
                            little)]
    IN  [mem |-> m2, S |-> S, reads |-> st.reads \o <<st.sp, st.sp - 1>>,
         rot0 |-> st.rot0,
         acc |-> << <<"rd", 1>>, <<"rd", 0>>, <<"wr", 1>>, <<"wr", 0>> >>]

\* rotl(x * (2*x), LGW)
QuadNoPlusOne(x, wide) == rotl(MulW(x, ScaleW(2, x)), LGW, wide)

\* rotl(x * (2*x+1), LGW)
Quad(x, wide) == rotl(MulW(x, AddW(ScaleW(2, x), WordOf(1))), LGW, wide)

Rc6EncRound(st, S, wide) ==
    LET t == Quad(st.B, wide)
        u == Quad(st.D, wide)
        dA == ModWordSz(u)
        dC == ModWordSz(t)
        A == AddW(rotl(XorW(st.A, t), dA, wide), ReadS(S, st.sp))
        C == AddW(rotl(XorW(st.C, u), dC, wide), ReadS(S, st.sp + 1))
    IN  [t |-> t, u |-> u, A |-> st.B, B |-> C, C |-> st.D, D |-> A,
         sp |-> st.sp + 2, i |-> st.i, j |-> st.j,
         reads |-> st.reads \o <<st.sp, st.sp + 1>>,
         rot0 |-> st.rot0 \/ dA = 0 \/ dC = 0]

RECURSIVE Rc6EncInner(_, _, _)
Rc6EncInner(st, S, wide) ==
    IF st.j < 4
    THEN Rc6EncInner([Rc6EncRound(st, S, wide) EXCEPT !.j = @ + 1], S, wide)
    ELSE st

RECURSIVE Rc6EncOuter(_, _, _, _)
Rc6EncOuter(st, r, S, wide) ==
    IF st.i < r \div 4
    THEN Rc6EncOuter([Rc6EncInner([st EXCEPT !.j = 0], S, wide) EXCEPT !.i = @ + 1],
                     r, S, wide)
    ELSE st

rc6_encrypt(S, w, r, mem, pt, ct, little, wide) ==
    LET A0 == bswap_if_be(LoadWord(mem[pt], 0, little), little)
        B0 == AddW(bswap_if_be(LoadWord(mem[pt], 1, little), little), ReadS(S, 0))
        C0 == bswap_if_be(LoadWord(mem[pt], 2, little), little)
        D0 == AddW(bswap_if_be(LoadWord(mem[pt], 3, little), little), ReadS(S, 1))
        st == Rc6EncOuter([t |-> ZeroW, u |-> ZeroW,
                           A |-> A0, B |-> B0, C |-> C0, D |-> D0, sp |-> 2,
                           i |-> 0, j |-> 0, reads |-> <<0, 1>>, rot0 |-> FALSE],
                          r, S, wide)
        m1 == [mem EXCEPT ![ct] =
                  StoreWord(@, 0, bswap_if_be(AddW(st.A, ReadS(S, st.sp)), little),
                            little)]
        m2 == [m1 EXCEPT ![ct] = StoreWord(@, 1, bswap_if_be(st.B, little), little)]
        m3 == [m2 EXCEPT ![ct] =
                  StoreWord(@, 2, bswap_if_be(AddW(st.C, ReadS(S, st.sp + 1)), little),
                            little)]
        m4 == [m3 EXCEPT ![ct] = StoreWord(@, 3, bswap_if_be(st.D, little), little)]
    IN  [mem |-> m4, S |-> S, reads |-> st.reads \o <<st.sp, st.sp + 1>>,
         rot0 |-> st.rot0,
         acc |-> << <<"rd", 0>>, <<"rd", 1>>, <<"rd", 2>>, <<"rd", 3>>,
                    <<"wr", 0>>, <<"wr", 1>>, <<"wr", 2>>, <<"wr", 3>> >>]

\* a decryption round that leaves out t=D; D=C; C=B; B=A; A=t
Rc6DecRoundNoShift(st, S, wide) ==
    LET u == Quad(st.D, wide)
        t == Quad(st.B, wide)
        dC == ModWordSz(t)
        dA == ModWordSz(u)
        C == XorW(rotr(SubW(st.C, ReadS(S, st.sp)), dC, wide), u)
        A == XorW(rotr(SubW(st.A, ReadS(S, st.sp - 1)), dA, wide), t)
    IN  [t |-> t, u |-> u, A |-> A, B |-> st.B, C |-> C, D |-> st.D,
         sp |-> st.sp - 2, i |-> st.i, j |-> st.j,
         reads |-> st.reads \o <<st.sp, st.sp - 1>>,
         rot0 |-> st.rot0 \/ dA = 0 \/ dC = 0]

Rc6DecRound(st, S, wide) ==
    LET A1 == st.D
        B1 == st.A
        C1 == st.B
        D1 == st.C
        u == Quad(D1, wide)
        t == Quad(B1, wide)
        dC == ModWordSz(t)
        dA == ModWordSz(u)
        C == XorW(rotr(SubW(C1, ReadS(S, st.sp)), dC, wide), u)
        A == XorW(rotr(SubW(A1, ReadS(S, st.sp - 1)), dA, wide), t)
    IN  [t |-> t, u |-> u, A |-> A, B |-> B1, C |-> C, D |-> D1,
         sp |-> st.sp - 2, i |-> st.i, j |-> st.j,
         reads |-> st.reads \o <<st.sp, st.sp - 1>>,
         rot0 |-> st.rot0 \/ dA = 0 \/ dC = 0]

RECURSIVE Rc6DecInner(_, _, _)
Rc6DecInner(st, S, wide) ==
    IF st.j < 4
    THEN Rc6DecInner([Rc6DecRound(st, S, wide) EXCEPT !.j = @ + 1], S, wide)
    ELSE st

RECURSIVE Rc6DecOuter(_, _, _, _)
Rc6DecOuter(st, r, S, wide) ==
    IF st.i < r \div 4
    THEN Rc6DecOuter([Rc6DecInner([st EXCEPT !.j = 0], S, wide) EXCEPT !.i = @ + 1],
                     r, S, wide)
    ELSE st

rc6_decrypt(S, w, r, mem, ct, pt, little, wide) ==
    LET D0 == bswap_if_be(LoadWord(mem[ct], 3, little), little)
        C0 == SubW(bswap_if_be(LoadWord(mem[ct], 2, little), little),
                   ReadS(S, 2 * r + 3))
        B0 == bswap_if_be(LoadWord(mem[ct], 1, little), little)
        A0 == SubW(bswap_if_be(LoadWord(mem[ct], 0, little), little),
                   ReadS(S, 2 * r + 2))
        st == Rc6DecOuter([t |-> ZeroW, u |-> ZeroW,
                           A |-> A0, B |-> B0, C |-> C0, D |-> D0,
                           sp |-> 2 * r + 1, i |-> 0, j |-> 0,
                           reads |-> <<2 * r + 3, 2 * r + 2>>, rot0 |-> FALSE],
                          r, S, wide)
        m1 == [mem EXCEPT ![pt] =
                  StoreWord(@, 3, bswap_if_be(SubW(st.D, ReadS(S, st.sp)), little),
                            little)]
        m2 == [m1 EXCEPT ![pt] = StoreWord(@, 2, bswap_if_be(st.C, little), little)]
        m3 == [m2 EXCEPT ![pt] =
                  StoreWord(@, 1, bswap_if_be(SubW(st.B, ReadS(S, st.sp - 1)), little),
                            little)]
        m4 == [m3 EXCEPT ![pt] = StoreWord(@, 0, bswap_if_be(st.A, little), little)]
    IN  [mem |-> m4, S |-> S, reads |-> st.reads \o <<st.sp, st.sp - 1>>,
         rot0 |-> st.rot0,
         acc |-> << <<"rd", 3>>, <<"rd", 2>>, <<"rd", 1>>, <<"rd", 0>>,
                    <<"wr", 3>>, <<"wr", 2>>, <<"wr", 1>>, <<"wr", 0>> >>]

(***************************************************************************)
(* Input domains of the model.                                             *)
(***************************************************************************)
\* rounds come in groups of 4: the valid round counts are 0, 4, .., 4*MaxGroups
MaxGroups == 1

\* block operations made on one key table
MaxCalls == 2

\* parameters print_vector is called with when the key schedule is studied:
\* supported and unsupported ones, key lengths up to the longest
Widths == {WORD_SZ, 32}

Rounds == {4 * g : g \in 0..MaxGroups} \cup {-4, -1, 1, 2, 3, 5, 255, 256}

KeyLens == {-1, 0, 9, 16, 255, 256}

\* parameters print_vector is called with when block operations follow
BlockRounds == {4 * g : g \in 0..MaxGroups}

BlockKeyLens == {9, 16}

\* how the caller fills a byte buffer: byte j (from 0) is j (main.c), or
\* every byte is the constant v.  With the key of main.c, the block of 51s
\* makes a data-dependent rotation amount 0 in RC5 and in RC6 at r = 4.
ByIndex == [kind |-> "index"]

Const(v) == [kind |-> "const", v |-> v]

KeyFills == {ByIndex}

BlockFills == {ByIndex, Const(51)}

\* what uninitialised memory (the malloc'd table, the local array L) may
\* hold: every byte is the same junk byte
JunkBytes == {0, 165}

\* bytes lo..hi (counted from 0) of a buffer filled by f
RECURSIVE FillRange(_, _, _)
FillRange(lo, hi, f) ==
    IF lo > hi THEN <<>>
    ELSE IF lo = hi THEN <<IF f.kind = "index" THEN lo % 256 ELSE f.v>>
    ELSE FillRange(lo, (lo + hi) \div 2, f) \o FillRange((lo + hi) \div 2 + 1, hi, f)

FillBytes(n, f) == FillRange(0, n - 1, f)

\* words of a block: 2 for RC5, 4 for RC6
BlockWords(c) == IF c = 5 THEN 2 ELSE 4

\* words of the expanded key table: 2r+2 for RC5, 2r+4 for RC6
TableWords(c, r) == IF c = 5 THEN 2 * r + 2 ELSE 2 * r + 4

(***************************************************************************)
(* State.                                                                  *)
(*   little : the host is little-endian                                    *)
(*   pc     : "main" (nothing allocated), "alloc" (print_vector has        *)
(*            allocated and filled its buffers), "failed" (setup returned  *)
(*            -1), "ready" (setup returned 0)                              *)
(*   cipher : 5 or 6, the print_vector variant running                     *)
(*   w,r,b  : its parameters                                               *)
(*   key    : the user key bytes                                           *)
(*   rkey   : the expanded key table (S[i] is rkey[i+1])                   *)
(*   mem    : the block buffers, 1 (buf of print_vector) and 2 (a second   *)
(*            buffer of the same size, for calls with pt # ct)             *)
(*   cur    : the buffer holding the block the next call reads             *)
(*   ret    : what setup returned ("none" before the call)                 *)
(*   sched  : what the last setup did: the table it left (S), the key      *)
(*            words it mixed (L), the <<i, j>> of each mixing iteration    *)
(*            (idx), whether a rotation amount was 0 (rot0)                *)
(*   hist   : the block operations made since setup, each with its buffers *)
(*            (src, dst), the bytes of src on entry (inp) and the          *)
(*            operation's reads, acc and rot0                              *)
(***************************************************************************)
VARIABLES little, pc, cipher, w, r, b, key, rkey, mem, cur, ret, sched, hist

vars == <<little, pc, cipher, w, r, b, key, rkey, mem, cur, ret, sched, hist>>

NoSched == [S |-> <<>>, L |-> <<>>, idx |-> <<>>, rot0 |-> FALSE]

Init ==
    /\ little \in BOOLEAN
    /\ pc = "main"
    /\ cipher = 0
    /\ w = 0
    /\ r = 0
    /\ b = 0
    /\ key = <<>>
    /\ rkey = <<>>
    /\ mem = <<>>
    /\ cur = 1
    /\ ret = "none"
    /\ sched = NoSched
    /\ hist = <<>>

\* print_vector5 / print_vector6 up to the call of setup: malloc of rkey
\* (contents indeterminate), key and buf, and the fill loops.
print_vector(c, w0, r0, b0) ==
    /\ pc = "main"
    /\ \E kf \in KeyFills, bf \in BlockFills, junk \in JunkBytes :
          /\ key' = FillBytes(max(b0, 0), kf)
          /\ mem' = <<FillBytes(BlockWords(c) * WORD_BYTES, bf),
                      FillBytes(BlockWords(c) * WORD_BYTES, Const(0))>>
          /\ rkey' = Repeat(Repeat(junk, WORD_BYTES), TableWords(c, r0))
    /\ cipher' = c
    /\ w' = w0
    /\ r' = r0
    /\ b' = b0
    /\ pc' = "alloc"
    /\ UNCHANGED <<little, cur, ret, sched, hist>>

print_vector5 ==
    \E r0 \in BlockRounds, b0 \in BlockKeyLens : print_vector(5, WORD_SZ, r0, b0)

print_vector6 ==
    \E r0 \in BlockRounds, b0 \in BlockKeyLens : print_vector(6, WORD_SZ, r0, b0)

\* the same with any parameters
print_vector5_any ==
    \E w0 \in Widths, r0 \in Rounds, b0 \in KeyLens : print_vector(5, w0, r0, b0)

print_vector6_any ==
    \E w0 \in Widths, r0 \in Rounds, b0 \in KeyLens : print_vector(6, w0, r0, b0)

\* The call of setup and what the caller learns from it.
CallSetup(res) ==
    /\ rkey' = res.S
    /\ ret' = res.ret
    /\ sched' = [S |-> res.S, L |-> res.L, idx |-> res.idx, rot0 |-> res.rot0]
    /\ pc' = IF res.ret = 0 THEN "ready" ELSE "failed"
    /\ UNCHANGED <<little, cipher, w, r, b, key, mem, cur, hist>>

call_rc5_setup ==
    /\ pc = "alloc"
    /\ cipher = 5
    /\ \E junk \in JunkBytes, wide \in WideShift :
          CallSetup(rc5_setup(rkey, w, r, b, key, Repeat(junk, L_BYTES),
                              little, wide))

call_rc6_setup ==
    /\ pc = "alloc"
    /\ cipher = 6
    /\ \E junk \in JunkBytes, wide \in WideShift :
          CallSetup(rc6_setup(rkey, w, r, b, key, Repeat(junk, L_BYTES),
                              little, wide))

\* A block operation op reading buffer cur and writing buffer dst.
CallBlock(op, dst, res) ==
    /\ mem' = res.mem
    /\ rkey' = res.S
    /\ cur' = dst
    /\ hist' = Append(hist, [op |-> op, src |-> cur, dst |-> dst, inp |-> mem[cur],
                             reads |-> res.reads, acc |-> res.acc,
                             rot0 |-> res.rot0])
    /\ UNCHANGED <<little, pc, cipher, w, r, b, key, ret, sched>>

call_rc5_encrypt ==
    /\ pc = "ready"
    /\ cipher = 5
    /\ Len(hist) < MaxCalls
    /\ \E dst \in {1, 2}, wide \in WideShift :
          CallBlock("enc", dst, rc5_encrypt(rkey, w, r, mem, cur, dst, little, wide))

call_rc5_decrypt ==
    /\ pc = "ready"
    /\ cipher = 5
    /\ Len(hist) < MaxCalls
    /\ \E dst \in {1, 2}, wide \in WideShift :
          CallBlock("dec", dst, rc5_decrypt(rkey, w, r, mem, cur, dst, little, wide))

call_rc6_encrypt ==
    /\ pc = "ready"
    /\ cipher = 6
    /\ Len(hist) < MaxCalls
    /\ \E dst \in {1, 2}, wide \in WideShift :
          CallBlock("enc", dst, rc6_encrypt(rkey, w, r, mem, cur, dst, little, wide))

call_rc6_decrypt ==
    /\ pc = "ready"
    /\ cipher = 6
    /\ Len(hist) < MaxCalls
    /\ \E dst \in {1, 2}, wide \in WideShift :
          CallBlock("dec", dst, rc6_decrypt(rkey, w, r, mem, cur, dst, little, wide))

\* A caller with supported parameters: setup, then block operations.
Next ==
    \/ print_vector5
    \/ print_vector6
    \/ call_rc5_setup
    \/ call_rc6_setup
    \/ call_rc5_encrypt
    \/ call_rc5_decrypt
    \/ call_rc6_encrypt
    \/ call_rc6_decrypt

Spec == Init /\ [][Next]_vars

\* A caller with any parameters, up to the return of setup.
NextSetup ==
    \/ print_vector5_any
    \/ print_vector6_any
    \/ call_rc5_setup
    \/ call_rc6_setup

SpecSetup == Init /\ [][NextSetup]_vars
(***************************************************************************)
(* Properties of the key schedule, checked under SpecSetup.                *)
(***************************************************************************)
\* C3: setup returns -1 exactly when w is not the compiled word width, or
\* b < 0, or b > 255, or r < 0, or r > 255, or r % 4 # 0; when it returns -1
\* the caller's table is what it was before the call; for every other
\* (w, r, b) it returns 0.
C3_SetupFailsExactlyOnUnsupported ==
    [][pc = "alloc" =>
         LET bad == \/ w # 64
                    \/ b < 0 \/ b > 255
                    \/ r < 0 \/ r > 255
                    \/ r % 4 # 0
         IN  /\ bad => ret' = -1 /\ pc' = "failed" /\ rkey' = rkey
             /\ ~bad => ret' = 0 /\ pc' = "ready"]_vars

\* setup has rejected a round count that is in range but no multiple of 4,
\* and the table still holds what malloc left in it
C3_Witness ==
    /\ pc = "failed"
    /\ w = 64
    /\ r = 5
    /\ b = 16
    /\ rkey = Repeat(Repeat(165, WORD_BYTES), TableWords(cipher, r))

\* the b key bytes packed least-significant-byte-first into n words, the
\* rest of the last word zero
RefPack(key0, b0, n) ==
    [k \in 1..n |->
        [i \in 1..WORD_BYTES |->
            IF WORD_BYTES * (k - 1) + i <= b0
            THEN key0[WORD_BYTES * (k - 1) + i] ELSE 0]]

\* C4: the table setup produces does not depend on what the table and the
\* array L held before the call: it is the table of a run that started from
\* an all-90 table and an all-90 L.  The key words the mixing pass starts
\* from are the key bytes packed least-significant-byte-first and padded
\* with zero bytes: max(1, ceil(b/8)) words, a single zero word when b = 0.
C4_SetupDeterministic ==
    pc = "ready" =>
       LET n == IF b = 0 THEN 1 ELSE (b + WORD_BYTES - 1) \div WORD_BYTES
           other == setup(Repeat(Repeat(90, WORD_BYTES), Len(rkey)), Len(rkey),
                          w, r, b, key, Repeat(90, L_BYTES), little, "mask")
       IN  /\ rkey = other.S
           /\ sched.L = RefPack(key, b, n)
           /\ b = 0 => sched.L = <<ZeroW>>

\* a key of 9 bytes has been expanded: the second key word holds one key
\* byte and seven pad bytes
C4_Witness ==
    /\ pc = "ready"
    /\ b = 9
    /\ Len(sched.L) = 2
    /\ sched.L[2] = WordOf(8)

\* iteration m.k of the mixing pass as a function of the iteration number:
\* it works on S[k mod S_words] and L[k mod L_words]
RefStep(m) ==
    LET i == (m.k % Len(m.S)) + 1
        j == (m.k % Len(m.L)) + 1
        A1 == rotl(AddW(AddW(m.S[i], m.A), m.B), 3, "mask")
        B1 == rotl(AddW(AddW(m.L[j], A1), m.B), ModWordSz(AddW(A1, m.B)), "mask")
    IN  [S |-> [m.S EXCEPT ![i] = A1], L |-> [m.L EXCEPT ![j] = B1],
         A |-> A1, B |-> B1, k |-> m.k + 1]

\* the iterations m.k .. n-1, run as two halves
RECURSIVE RefMix(_, _)
RefMix(m, n) ==
    IF m.k >= n THEN m
    ELSE IF m.k + 1 = n THEN RefStep(m)
    ELSE RefMix(RefMix(m, (m.k + n) \div 2), n)

\* C8: the mixing pass runs exactly 3 * max(L_words, S_words) iterations,
\* iteration k (from 0) works on S[k mod S_words] and L[k mod L_words], with
\* A = S[i] = rotl(S[i]+A+B, 3) computed before B = L[j] = rotl(L[j]+A+B,
\* (A+B) mod 64), which uses the new A; L_words = max(1, ceil(b/8)) is at
\* most the 256/8 words L has room for.
C8_MixingPass ==
    pc = "ready" =>
       LET S_words == IF cipher = 5 THEN 2 * r + 2 ELSE 2 * r + 4
           L_words == IF b = 0 THEN 1 ELSE (b + WORD_BYTES - 1) \div WORD_BYTES
           n == 3 * (IF L_words > S_words THEN L_words ELSE S_words)
           S1 == FillS([S |-> WriteS(Repeat(ZeroW, S_words), 0, P), i |-> 1],
                       S_words).S
       IN  /\ Len(sched.idx) = n
           /\ \A k \in 0..(n - 1) :
                 sched.idx[k + 1] = <<k % S_words, k % L_words>>
           /\ L_words <= 256 \div WORD_BYTES
           /\ Len(sched.L) = L_words
           /\ Len(rkey) = S_words
           /\ rkey = RefMix([S |-> S1, L |-> sched.L, A |-> ZeroW, B |-> ZeroW,
                             k |-> 0], n).S

\* the longest key: 32 key words, more than the table has words, so the
\* table is walked several times and L three times
C8_Witness ==
    /\ pc = "ready"
    /\ b = 255
    /\ cipher = 6
    /\ r = 4
    /\ Len(sched.idx) = 96
    /\ sched.idx[13] = <<0, 12>>
    /\ sched.idx[33] = <<8, 0>>

(***************************************************************************)
(* Properties of the block operations, checked under Spec.                 *)
(***************************************************************************)
\* the last block operation made
Last == hist[Len(hist)]

\* the operation before it
Prev == hist[Len(hist) - 1]

\* word k (from 0) of a block of bytes, least significant byte first
WordLSB(bytes, k) == SubSeq(bytes, WORD_BYTES * k + 1, WORD_BYTES * k + WORD_BYTES)

\* C1: after a successful rc5_setup, rc5_decrypt of what rc5_encrypt made
\* of a block is that block, for r = 0 and for r > 0, and also when a
\* data-dependent rotation amount is 0.
C1_Rc5RoundTrip ==
    (cipher = 5 /\ Len(hist) >= 2 /\ Prev.op = "enc" /\ Last.op = "dec")
       => mem[cur] = Prev.inp

\* a 4-round RC5 round trip in which a rotation amount was 0 on the way
\* there and on the way back
C1_Witness ==
    /\ cipher = 5
    /\ r = 4
    /\ Len(hist) = 2
    /\ hist[1].op = "enc" /\ hist[1].rot0
    /\ hist[2].op = "dec" /\ hist[2].rot0
    /\ mem[cur] = hist[1].inp

\* C2: after a successful rc6_setup, rc6_decrypt of what rc6_encrypt made
\* of a block is that block, for r = 0 and for r > 0: the decryption round
\* undoes the register shift and recomputes t and u on the values the
\* encryption round used.
C2_Rc6RoundTrip ==
    (cipher = 6 /\ Len(hist) >= 2 /\ Prev.op = "enc" /\ Last.op = "dec")
       => mem[cur] = Prev.inp

\* a 4-round RC6 round trip through two different buffers
C2_Witness ==
    /\ cipher = 6
    /\ r = 4
    /\ Len(hist) = 2
    /\ hist[1].op = "enc" /\ hist[1].dst = 2
    /\ hist[2].op = "dec" /\ hist[2].dst = 1
    /\ hist[1].rot0
    /\ mem[1] = hist[1].inp
    /\ mem[2] # hist[1].inp

\* the operation op of cipher c on table S, from buffer src to buffer dst
RunOp(c, op, S, m, src, dst, le) ==
    IF c = 5
    THEN IF op = "enc" THEN rc5_encrypt(S, w, r, m, src, dst, le, "mask")
         ELSE rc5_decrypt(S, w, r, m, src, dst, le, "mask")
    ELSE IF op = "enc" THEN rc6_encrypt(S, w, r, m, src, dst, le, "mask")
         ELSE rc6_decrypt(S, w, r, m, src, dst, le, "mask")

\* C5: a host of the other byte order makes the same table from the same
\* key bytes, and its block operations make the same output bytes from the
\* same input bytes, for RC5 and RC6, encryption and decryption.
C5_EndianIndependent ==
    pc = "ready" =>
       IF hist = <<>>
       THEN rkey = setup(Repeat(ZeroW, Len(rkey)), Len(rkey), w, r, b, key,
                         Repeat(0, L_BYTES), ~little, "mask").S
       ELSE mem[cur] = RunOp(cipher, Last.op, rkey, <<Last.inp>>, 1, 1, ~little).mem[1]

\* a big-endian host has encrypted and decrypted an RC6 block with a
\* 9-byte key
C5_Witness ==
    /\ ~little
    /\ cipher = 6
    /\ r = 4
    /\ b = 9
    /\ Len(hist) = 2
    /\ hist[1].op = "enc"
    /\ hist[2].op = "dec"

\* rounds m.k .. n-1 of the flat RC5 encryption: S[2k+2] and S[2k+3] are
\* the elements 2k+3 and 2k+4 of the table
RECURSIVE RefRc5(_, _, _)
RefRc5(m, n, S) ==
    IF m.k = n THEN <<m.A, m.B>>
    ELSE LET A1 == AddW(rotl(XorW(m.A, m.B), ModWordSz(m.B), "mask"),
                        S[2 * m.k + 3])
             B1 == AddW(rotl(XorW(m.B, A1), ModWordSz(A1), "mask"),
                        S[2 * m.k + 4])
         IN  RefRc5([A |-> A1, B |-> B1, k |-> m.k + 1], n, S)

\* C6: rc5_encrypt makes what r flat rounds make: from A = p0 + S[0],
\* B = p1 + S[1], round k sets A = rotl(A xor B, B mod 64) + S[2k+2] and then
\* B = rotl(B xor A, A mod 64) + S[2k+3]; the output is (A, B), which for
\* r = 0 is (p0 + S[0], p1 + S[1]).
C6_Rc5EncryptIsFlat ==
    (cipher = 5 /\ Len(hist) >= 1 /\ Last.op = "enc") =>
       LET A0 == AddW(WordLSB(Last.inp, 0), rkey[1])
           B0 == AddW(WordLSB(Last.inp, 1), rkey[2])
           out == RefRc5([A |-> A0, B |-> B0, k |-> 0], r, rkey)
       IN  /\ mem[cur] = out[1] \o out[2]
           /\ r = 0 => mem[cur] = A0 \o B0

\* rc5_encrypt has run its nested loop for r = 4
C6_Witness ==
    /\ cipher = 5
    /\ r = 4
    /\ Len(hist) = 1
    /\ Last.op = "enc"
    /\ Len(Last.reads) = 10

\* f(x) = rotl(x * (2x + 1), log2 64)
RefF(x) == rotl(MulW(x, AddW(AddW(x, x), WordOf(1))), 6, "mask")

\* rounds m.k .. n-1 of the flat RC6 encryption and the final additions
RECURSIVE RefRc6(_, _, _)
RefRc6(m, n, S) ==
    IF m.k = n
    THEN <<AddW(m.A, S[2 * n + 3]), m.B, AddW(m.C, S[2 * n + 4]), m.D>>
    ELSE LET t == RefF(m.B)
             u == RefF(m.D)
             A1 == AddW(rotl(XorW(m.A, t), ModWordSz(u), "mask"), S[2 * m.k + 3])
             C1 == AddW(rotl(XorW(m.C, u), ModWordSz(t), "mask"), S[2 * m.k + 4])
         IN  RefRc6([t |-> t, u |-> u, A |-> m.B, B |-> C1, C |-> m.D, D |-> A1,
                     k |-> m.k + 1], n, S)

\* C7: rc6_encrypt makes what r flat rounds make: from A = p0, B = p1 + S[0],
\* C = p2, D = p3 + S[1], round k computes t = f(B), u = f(D),
\* A = rotl(A xor t, u mod 64) + S[2k+2], C = rotl(C xor u, t mod 64) + S[2k+3]
\* and then (A,B,C,D) := (B,C,D,A); at the end A += S[2r+2], C += S[2r+3].
\* For r = 0 the output is (p0 + S[2], p1 + S[0], p2 + S[3], p3 + S[1]).
C7_Rc6EncryptIsFlat ==
    (cipher = 6 /\ Len(hist) >= 1 /\ Last.op = "enc") =>
       LET p0 == WordLSB(Last.inp, 0)
           p1 == WordLSB(Last.inp, 1)
           p2 == WordLSB(Last.inp, 2)
           p3 == WordLSB(Last.inp, 3)
           out == RefRc6([t |-> ZeroW, u |-> ZeroW, A |-> p0,
                          B |-> AddW(p1, rkey[1]), C |-> p2,
                          D |-> AddW(p3, rkey[2]), k |-> 0], r, rkey)
       IN  /\ mem[cur] = out[1] \o out[2] \o out[3] \o out[4]
           /\ r = 0 => mem[cur] = AddW(p0, rkey[3]) \o AddW(p1, rkey[1])
                                  \o AddW(p2, rkey[4]) \o AddW(p3, rkey[2])

\* rc6_encrypt has run its nested loop for r = 4
C7_Witness ==
    /\ cipher = 6
    /\ r = 4
    /\ Len(hist) = 1
    /\ Last.op = "enc"
    /\ Len(Last.reads) = 12

\* C9: each block operation reads every table index 0 .. S_words-1 once and
\* no other (S_words = 2r+2 for RC5, 2r+4 for RC6), encryption in increasing
\* and decryption in decreasing order, and the table is still what setup
\* left.
C9_SubkeyOrder ==
    pc = "ready" =>
       LET S_words == IF cipher = 5 THEN 2 * r + 2 ELSE 2 * r + 4
       IN  /\ Len(rkey) = S_words
           /\ rkey = sched.S
           /\ \A k \in 1..Len(hist) :
                 /\ Len(hist[k].reads) = S_words
                 /\ \A i \in 1..S_words :
                       hist[k].reads[i] =
                          IF hist[k].op = "enc" THEN i - 1 ELSE S_words - i

\* an RC5 decryption and then an encryption with the same table: the
\* decryption walked the 10 subkeys from S[9] down to S[0]
C9_Witness ==
    /\ cipher = 5
    /\ r = 4
    /\ Len(hist) = 2
    /\ hist[1].op = "dec"
    /\ hist[1].reads[1] = 9
    /\ hist[1].reads[10] = 0
    /\ hist[2].op = "enc"
    /\ rkey = sched.S

\* C10: every block operation reads all the words of its input block before
\* it writes a word of its output block, so a call with pt = ct makes the
\* output a call with two buffers makes.
C10_InPlace ==
    Len(hist) >= 1 =>
       LET two == <<Last.inp, FillBytes(Len(Last.inp), Const(0))>>
           other == IF Last.src = Last.dst
                    THEN RunOp(cipher, Last.op, rkey, two, 1, 2, little).mem[2]
                    ELSE RunOp(cipher, Last.op, rkey, two, 1, 1, little).mem[1]
       IN  /\ \A i, j \in 1..Len(Last.acc) :
                 (i < j /\ Last.acc[i][1] = "wr") => Last.acc[j][1] = "wr"
           /\ mem[cur] = other

\* rc6_decrypt has been called with pt = ct, as main.c calls it
C10_Witness ==
    /\ cipher = 6
    /\ r = 4
    /\ Len(hist) = 2
    /\ hist[1].op = "enc" /\ hist[1].src = 1 /\ hist[1].dst = 1
    /\ hist[2].op = "dec" /\ hist[2].src = 1 /\ hist[2].dst = 1
====
